---------------------------- MODULE Spec2Model ----------------------------
(***************************************************************************)
(* A model of tiddlylisp (src/devons-tiddlylisp.py): the tokenizer, the    *)
(* reader, the renderer, the environment chain and the evaluator, with the *)
(* read-eval-print loop as the state machine that drives them.             *)
(*                                                                         *)
(* Text is a sequence of one-character strings.  Every Lisp value is a     *)
(* record [t, v]: t is the Python type of the value and v its payload.     *)
(***************************************************************************)
EXTENDS Integers, Sequences, FiniteSets, TLC

VARIABLES
  envs,      \* the Env objects ever created; envs[1] is global_env
  nlambda,   \* number of Python lambda objects created so far
  made,      \* made[i]: the Env in which the i-th lambda object was created
  log,       \* what the last top-level evaluation did (define, set!, calls)
  pre,       \* envs as it was when the last top-level evaluation started
  last,      \* outcome of the last repl iteration
  steps,     \* repl iterations so far
  prog,      \* which family of inputs the session draws from
  text,      \* reader pipeline: the source text
  tokens,    \* reader pipeline: tokenize(text)
  rd,        \* reader pipeline: outcome of read_from(tokens)
  rendered,  \* reader pipeline: to_string of the expression read
  rd2,       \* reader pipeline: outcome of parse(rendered)
  phase      \* reader pipeline: position

vars == <<envs, nlambda, made, log, pre, last, steps, prog,
          text, tokens, rd, rendered, rd2, phase>>

evalVars == <<envs, nlambda, made, log, pre, last, steps, prog>>
readVars == <<text, tokens, rd, rendered, rd2, phase>>

---------------------------------------------------------------------------
(* Bounds of the model.                                                    *)

MaxLen   == 5    \* longest source text fed to the reader pipeline
MaxSteps == 4    \* repl iterations in one session
MaxArgs  == 3    \* most operands of a builtin application
MaxInt   == 2    \* operands of a builtin application range over -MaxInt..MaxInt
MaxDepth == 14   \* nesting of eval calls before the interpreter's stack runs out

---------------------------------------------------------------------------
(* Values.                                                                 *)

MkInt(n)     == [t |-> "int",     v |-> n]
MkFloat(s)   == [t |-> "float",   v |-> s]
MkSym(s)     == [t |-> "str",     v |-> s]
MkList(s)    == [t |-> "list",    v |-> s]
MkBool(b)    == [t |-> "bool",    v |-> b]
MkBuiltin(n) == [t |-> "builtin", v |-> n]
None         == [t |-> "none",    v |-> 0]
MkLambda(id, vs, exp, env) ==
  [t |-> "lambda", v |-> [id |-> id, vars |-> vs, exp |-> exp, env |-> env]]

isa(x, ty) == x.t = ty

---------------------------------------------------------------------------
(* Text helpers: Python's str, int(), float(), str.split().                *)

Digits == <<"0", "1", "2", "3", "4", "5", "6", "7", "8", "9">>

IsDigit(c) == \E i \in 1..10 : Digits[i] = c

DigitVal(c) == (CHOOSE i \in 1..10 : Digits[i] = c) - 1

IsSpace(c) == c \in {" ", "\t", "\n", "\r", "\f"}

AllDigits(s) == Len(s) > 0 /\ \A i \in 1..Len(s) : IsDigit(s[i])

Unsigned(s) == IF Len(s) > 0 /\ s[1] \in {"+", "-"} THEN Tail(s) ELSE s

\* int(token) succeeds: an optional sign and one or more decimal digits.
IsIntLit(s) == AllDigits(Unsigned(s))

RECURSIVE DigitsToNat(_)
DigitsToNat(s) ==
  IF s = <<>> THEN 0
  ELSE 10 * DigitsToNat(SubSeq(s, 1, Len(s) - 1)) + DigitVal(s[Len(s)])

TextToInt(s) ==
  IF s[1] = "-" THEN 0 - DigitsToNat(Tail(s)) ELSE DigitsToNat(Unsigned(s))

RECURSIVE NatToText(_)
NatToText(n) ==
  IF n < 10 THEN <<Digits[n + 1]>>
  ELSE NatToText(n \div 10) \o <<Digits[(n % 10) + 1]>>

\* str(n) of a Python integer.
IntToText(n) == IF n < 0 THEN <<"-">> \o NatToText(0 - n) ELSE NatToText(n)

\* float(token) succeeds, for tokens over an alphabet without "." and
\* without upper-case letters: [sign] digits [e [sign] digits], or
\* [sign] inf | nan | infinity.
IsFloatLit(s) ==
  LET u == Unsigned(s)
      epos == {i \in 1..Len(u) : u[i] = "e"}
  IN  \/ AllDigits(u)
      \/ u \in { <<"i","n","f">>, <<"n","a","n">>,
                 <<"i","n","f","i","n","i","t","y">> }
      \/ \E i \in epos :
           /\ AllDigits(SubSeq(u, 1, i - 1))
           /\ AllDigits(Unsigned(SubSeq(u, i + 1, Len(u))))

---------------------------------------------------------------------------
(* Parsing: tokenize, read_from, atom, parse, to_string.                   *)

\* s.replace('(', ' ( ').replace(')', ' ) '): every parenthesis gets a
\* space on either side (the text is halved to keep the recursion shallow).
RECURSIVE pad_parens(_)
pad_parens(s) ==
  IF Len(s) = 0 THEN <<>>
  ELSE IF Len(s) = 1
       THEN (IF s[1] \in {"(", ")"} THEN <<" ", s[1], " ">> ELSE s)
  ELSE LET h == Len(s) \div 2 IN
       pad_parens(SubSeq(s, 1, h)) \o pad_parens(SubSeq(s, h + 1, Len(s)))

\* s.split(): the maximal runs of non-whitespace characters, in order.
\* split_from(s, i) is the words of s from position i on.
RECURSIVE split_from(_, _)
split_from(s, i) ==
  LET n == Len(s) IN
  IF \A j \in i..n : IsSpace(s[j]) THEN <<>>
  ELSE
    LET b == CHOOSE j \in i..n :
               ~ IsSpace(s[j]) /\ \A m \in i..(j - 1) : IsSpace(s[m])
        e == CHOOSE j \in b..n :
               /\ \A m \in b..j : ~ IsSpace(s[m])
               /\ (j = n \/ IsSpace(s[j + 1]))
    IN  <<SubSeq(s, b, e)>> \o split_from(s, e + 1)

split(s) == split_from(s, 1)

\* The for loop of tokenize over the words, with its three loop variables.
RECURSIVE tokenize_loop(_, _, _, _)
tokenize_loop(words, result, str_so_far, open_parens) ==
  IF words = <<>> THEN result
  ELSE
    LET token == Head(words) IN
    IF open_parens THEN
      LET joined == str_so_far \o <<" ">> \o token IN
      IF token[Len(token)] = "\""
      THEN tokenize_loop(Tail(words), Append(result, joined), <<>>, FALSE)
      ELSE tokenize_loop(Tail(words), result, joined, TRUE)
    ELSE IF token[1] = "\""
      THEN tokenize_loop(Tail(words), result, token, TRUE)
      ELSE tokenize_loop(Tail(words), Append(result, token), str_so_far, FALSE)

tokenize(s) == tokenize_loop(split(pad_parens(s)), <<>>, <<>>, FALSE)

\* Numbers become numbers; every other token is a symbol.
atom(token) ==
  IF IsIntLit(token) THEN MkInt(TextToInt(token))
  ELSE IF IsFloatLit(token) THEN MkFloat(token)
  ELSE MkSym(token)

\* Outcome of reading: the expression and the tokens left, or the exception.
ReadOk(exp, rest) == [ok |-> TRUE,  exp |-> exp,  rest |-> rest, err |-> ""]
ReadErr(e)        == [ok |-> FALSE, exp |-> None, rest |-> <<>>, err |-> e]

RECURSIVE read_from(_)

\* The while loop of read_from: tokens[0] raises IndexError on an empty list.
RECURSIVE read_list(_, _)
read_list(toks, L) ==
  IF toks = <<>> THEN ReadErr("IndexError")
  ELSE IF Head(toks) # <<")">>
       THEN LET r == read_from(toks) IN
            IF r.ok THEN read_list(r.rest, Append(L, r.exp)) ELSE r
       ELSE ReadOk(MkList(L), Tail(toks))

read_from(toks) ==
  IF Len(toks) = 0 THEN ReadErr("SyntaxError")
  ELSE
    LET token == Head(toks) IN
    IF token = <<"(">> THEN read_list(Tail(toks), <<>>)
    ELSE IF token = <<")">> THEN ReadErr("SyntaxError")
    ELSE ReadOk(atom(token), Tail(toks))

parse(s) == read_from(tokenize(s))

\* Mutant of join_space: the renderings are joined without a separator.
RECURSIVE join_nothing(_)
join_nothing(strs) ==
  IF strs = <<>> THEN <<>> ELSE strs[1] \o join_nothing(Tail(strs))

RECURSIVE join_space(_)
join_space(strs) ==
  IF strs = <<>> THEN <<>>
  ELSE IF Len(strs) = 1 THEN strs[1]
  ELSE strs[1] \o <<" ">> \o join_space(Tail(strs))

Txt_True  == <<"T", "r", "u", "e">>
Txt_False == <<"F", "a", "l", "s", "e">>
Txt_None  == <<"N", "o", "n", "e">>
Txt_Func  == <<"<", "f", "u", "n", "c", "t", "i", "o", "n", ">">>

\* str(exp) of a value that is not a list.  A float literal stands for its
\* own text, and a function prints without its address.
py_str(exp) ==
  CASE exp.t = "int"   -> IntToText(exp.v)
    [] exp.t = "str"   -> exp.v
    [] exp.t = "float" -> exp.v
    [] exp.t = "bool"  -> IF exp.v THEN Txt_True ELSE Txt_False
    [] exp.t = "none"  -> Txt_None
    [] OTHER           -> Txt_Func

\* Convert a Python object back into a Lisp-readable string.
RECURSIVE to_string(_)
to_string(exp) ==
  IF ~ isa(exp, "list") THEN py_str(exp)
  ELSE <<"(">> \o join_space([i \in 1..Len(exp.v) |-> to_string(exp.v[i])])
       \o <<")">>

---------------------------------------------------------------------------
(* The reader pipeline: a source text is parsed, the expression read is    *)
(* rendered, and the rendering is parsed again.                            *)

Alphabet == {"a", "1", "-", "(", ")", " ", "\""}

Texts == UNION {[1..n -> Alphabet] : n \in 0..MaxLen}

NoRead == ReadErr("")

InitRead ==
  /\ text \in Texts
  /\ tokens = <<>>
  /\ rd = NoRead
  /\ rendered = <<>>
  /\ rd2 = NoRead
  /\ phase = "start"

\* parse(s): tokenize, then read_from on the tokens.
Parse ==
  /\ phase = "start"
  /\ tokens' = tokenize(text)
  /\ rd' = read_from(tokens')
  /\ phase' = "parsed"
  /\ UNCHANGED <<text, rendered, rd2, evalVars>>

\* to_string of the expression that was read.
Render ==
  /\ phase = "parsed"
  /\ rd.ok
  /\ rendered' = to_string(rd.exp)
  /\ phase' = "rendered"
  /\ UNCHANGED <<text, tokens, rd, rd2, evalVars>>

\* parse of the rendered text.
Reparse ==
  /\ phase = "rendered"
  /\ rd2' = parse(rendered)
  /\ phase' = "reparsed"
  /\ UNCHANGED <<text, tokens, rd, rendered, evalVars>>

---------------------------------------------------------------------------
(* Python values: equality, truth, dictionaries.                           *)

IsNum(a) == a.t \in {"int", "bool"}

\* The integer a Python int or bool stands for (True is 1, False is 0).
NumVal(a) == IF a.t = "bool" THEN (IF a.v THEN 1 ELSE 0) ELSE a.v

\* a == b in Python.  Functions compare by identity, floats by their literal.
RECURSIVE py_eq(_, _)
py_eq(a, b) ==
  IF IsNum(a) /\ IsNum(b) THEN NumVal(a) = NumVal(b)
  ELSE IF a.t # b.t THEN FALSE
  ELSE IF a.t = "list"
       THEN /\ Len(a.v) = Len(b.v)
            /\ \A i \in 1..Len(a.v) : py_eq(a.v[i], b.v[i])
  ELSE IF a.t = "lambda" THEN a.v.id = b.v.id
  ELSE a.v = b.v

\* bool(a) in Python.
truthy(a) ==
  CASE IsNum(a)     -> NumVal(a) # 0
    [] a.t = "list" -> a.v # <<>>
    [] a.t = "str"  -> a.v # <<>>
    [] a.t = "none" -> FALSE
    [] OTHER        -> TRUE

\* A list is not hashable, so it is no dictionary key.
hashable(k) == k.t # "list"

\* A dictionary is a sequence of [k, v] entries with pairwise unequal keys.
dict_has(b, k) == \E i \in 1..Len(b) : py_eq(b[i].k, k)

dict_get(b, k) == b[CHOOSE i \in 1..Len(b) : py_eq(b[i].k, k)].v

\* b[k] = val: an equal key keeps its entry, a new key gets one.
dict_set(b, k, val) ==
  IF dict_has(b, k)
  THEN [i \in 1..Len(b) |-> IF py_eq(b[i].k, k) THEN [k |-> b[i].k, v |-> val]
                             ELSE b[i]]
  ELSE Append(b, [k |-> k, v |-> val])

\* dict.update(pairs), one pair after the other.
RECURSIVE dict_update(_, _)
dict_update(b, pairs) ==
  IF pairs = <<>> THEN b
  ELSE dict_update(dict_set(b, Head(pairs).k, Head(pairs).v), Tail(pairs))

---------------------------------------------------------------------------
(* Env: a dict of { var: val } pairs, with an outer Env.  An Env object is *)
(* its index in envs; outer = 0 is Python's None.                          *)

\* The elements Python iterates over in params: the items of a list, the
\* characters of a str.
iter_items(x) ==
  IF x.t = "list" THEN x.v ELSE [i \in 1..Len(x.v) |-> MkSym(<<x.v[i]>>)]

iterable(x) == x.t \in {"list", "str"}

Min2(a, b) == IF a < b THEN a ELSE b

\* zip(params, args): pairs up to the shorter of the two.
zip(ps, as) == [i \in 1..Min2(Len(ps), Len(as)) |-> [k |-> ps[i], v |-> as[i]]]

\* Mutant of EnvInit: the outer link is never set.
EnvInit_no_outer(params, args, outer) ==
  [b |-> dict_update(<<>>, zip(iter_items(params), args)), outer |-> 0]

\* Env.__init__: self.update(zip(params, args)); self.outer = outer
EnvInit(params, args, outer) ==
  [b |-> dict_update(<<>>, zip(iter_items(params), args)), outer |-> outer]

\* Env.find: the innermost Env where var appears; 0 when the chain ends at
\* None, on which .find raises AttributeError.
RECURSIVE find(_, _, _)
find(es, env, var) ==
  IF env = 0 THEN 0
  ELSE IF dict_has(es[env].b, var) THEN env
  ELSE find(es, es[env].outer, var)

BuiltinNames ==
  << <<<<"+">>, "add">>, <<<<"-">>, "sub">>, <<<<"*">>, "mul">>,
     <<<<"/">>, "div">>, <<<<">">>, "gt">>,  <<<<"<">>, "lt">>,
     <<<<">", "=">>, "ge">>, <<<<"<", "=">>, "le">>, <<<<"=">>, "eq">> >>

\* add_globals(Env()): the builtin procedures, then True and False.
add_globals(env) ==
  [env EXCEPT !.b =
     dict_update(
       dict_update(env.b,
         [i \in 1..Len(BuiltinNames) |->
            [k |-> MkSym(BuiltinNames[i][1]), v |-> MkBuiltin(BuiltinNames[i][2])]]),
       << [k |-> MkSym(Txt_True),  v |-> MkBool(TRUE)],
          [k |-> MkSym(Txt_False), v |-> MkBool(FALSE)] >>)]

global_env == add_globals(EnvInit(MkList(<<>>), <<>>, 0))

---------------------------------------------------------------------------
(* The builtin procedures: Python 2's operator module.                     *)

RECURSIVE repeat(_, _)
repeat(s, n) == IF n <= 0 THEN <<>> ELSE s \o repeat(s, n - 1)

IsSeqVal(a) == a.t \in {"list", "str"}

BinOk(v)  == [ok |-> TRUE,  val |-> v,    err |-> ""]
BinErr(e) == [ok |-> FALSE, val |-> None, err |-> e]

\* operator.<name>(a, b).  Integers are unbounded; / on integers floors.
\* Float arithmetic and the ordering of non-numbers are not modelled.
binop(name, a, b) ==
  IF name = "eq" THEN BinOk(MkBool(py_eq(a, b)))
  ELSE IF a.t = "float" \/ b.t = "float" THEN BinErr("Unmodelled")
  ELSE IF IsNum(a) /\ IsNum(b) THEN
    LET m == NumVal(a)
        n == NumVal(b)
    IN  CASE name = "add" -> BinOk(MkInt(m + n))
          [] name = "sub" -> BinOk(MkInt(m - n))
          [] name = "mul" -> BinOk(MkInt(m * n))
          [] name = "div" -> IF n = 0 THEN BinErr("ZeroDivisionError")
                             ELSE BinOk(MkInt(m \div n))
          [] name = "gt"  -> BinOk(MkBool(m > n))
          [] name = "lt"  -> BinOk(MkBool(m < n))
          [] name = "ge"  -> BinOk(MkBool(m >= n))
          [] name = "le"  -> BinOk(MkBool(m <= n))
  ELSE IF name \in {"gt", "lt", "ge", "le"} THEN BinErr("Unmodelled")
  ELSE IF name = "add" /\ IsSeqVal(a) /\ a.t = b.t
    THEN BinOk([t |-> a.t, v |-> a.v \o b.v])
  ELSE IF name = "mul" /\ IsSeqVal(a) /\ IsNum(b)
    THEN BinOk([t |-> a.t, v |-> repeat(a.v, NumVal(b))])
  ELSE IF name = "mul" /\ IsNum(a) /\ IsSeqVal(b)
    THEN BinOk([t |-> b.t, v |-> repeat(b.v, NumVal(a))])
  ELSE BinErr("TypeError")

---------------------------------------------------------------------------
(* The special-form keywords.                                              *)

Kw_quote == <<"q", "u", "o", "t", "e">>
Kw_q == <<"q">>
Kw_atomp == <<"a", "t", "o", "m", "?">>
Kw_eqp == <<"e", "q", "?">>
Kw_car == <<"c", "a", "r">>
Kw_cdr == <<"c", "d", "r">>
Kw_cons == <<"c", "o", "n", "s">>
Kw_cond == <<"c", "o", "n", "d">>
Kw_nullp == <<"n", "u", "l", "l", "?">>
Kw_if == <<"i", "f">>
Kw_set == <<"s", "e", "t", "!">>
Kw_define == <<"d", "e", "f", "i", "n", "e">>
Kw_lambda == <<"l", "a", "m", "b", "d", "a">>
Kw_begin == <<"b", "e", "g", "i", "n">>

is_kw(x, kw) == x.t = "str" /\ x.v = kw

---------------------------------------------------------------------------
(* The interpreter's store, threaded through eval: the Env objects, the    *)
(* lambda objects created, and the record of what the evaluation did.      *)

Ev(k, env, key, val, tgt, ref, b4, aft) ==
  [k |-> k, env |-> env, key |-> key, val |-> val, tgt |-> tgt, ref |-> ref,
   b4 |-> b4, aft |-> aft]

Logged(st, ev) == [st EXCEPT !.log = Append(@, ev)]

\* Outcome of an evaluation: the value and the store, or the exception
\* raised and the store as the evaluation left it.
Ok(val, st) == [ok |-> TRUE,  val |-> val,  err |-> "", st |-> st]
Err(e, st)  == [ok |-> FALSE, val |-> None, err |-> e,  st |-> st]

\* (_, exp) = x and its like: unpacking needs exactly n items.
unpacks(x, n) == Len(x.v) = n

RECURSIVE eval(_, _, _, _)

\* variable reference: env.find(x)[x]
eval_symbol(x, env, st, d) ==
  LET f == find(st.envs, env, x) IN
  IF f = 0 THEN Err("AttributeError", st)
  ELSE Ok(dict_get(st.envs[f].b, x), st)

\* (quote exp) or (q exp)
eval_quote(x, env, st, d) ==
  IF ~ unpacks(x, 2) THEN Err("ValueError", st) ELSE Ok(x.v[2], st)

\* (atom? exp)
eval_atomp(x, env, st, d) ==
  IF ~ unpacks(x, 2) THEN Err("ValueError", st)
  ELSE LET r == eval(x.v[2], env, st, d + 1) IN
       IF ~ r.ok THEN r ELSE Ok(MkBool(~ isa(r.val, "list")), r.st)

\* (eq? exp1 exp2)
eval_eqp(x, env, st, d) ==
  IF ~ unpacks(x, 3) THEN Err("ValueError", st)
  ELSE LET r1 == eval(x.v[2], env, st, d + 1) IN
       IF ~ r1.ok THEN r1
       ELSE LET r2 == eval(x.v[3], env, r1.st, d + 1) IN
            IF ~ r2.ok THEN r2
            ELSE Ok(MkBool((~ isa(r1.val, "list")) /\ py_eq(r1.val, r2.val)),
                    r2.st)

\* (car exp): eval(exp, env)[0]
eval_car(x, env, st, d) ==
  IF ~ unpacks(x, 2) THEN Err("ValueError", st)
  ELSE LET r == eval(x.v[2], env, st, d + 1) IN
       IF ~ r.ok THEN r
       ELSE IF ~ IsSeqVal(r.val) THEN Err("TypeError", r.st)
       ELSE IF r.val.v = <<>> THEN Err("IndexError", r.st)
       ELSE Ok(iter_items(r.val)[1], r.st)

\* (cdr exp): eval(exp, env)[1:]
eval_cdr(x, env, st, d) ==
  IF ~ unpacks(x, 2) THEN Err("ValueError", st)
  ELSE LET r == eval(x.v[2], env, st, d + 1) IN
       IF ~ r.ok THEN r
       ELSE IF ~ IsSeqVal(r.val) THEN Err("TypeError", r.st)
       ELSE Ok([t |-> r.val.t,
                v |-> IF r.val.v = <<>> THEN <<>> ELSE Tail(r.val.v)], r.st)

\* (cons exp1 exp2): [eval(exp1, env)] + eval(exp2, env)
eval_cons(x, env, st, d) ==
  IF ~ unpacks(x, 3) THEN Err("ValueError", st)
  ELSE LET r1 == eval(x.v[2], env, st, d + 1) IN
       IF ~ r1.ok THEN r1
       ELSE LET r2 == eval(x.v[3], env, r1.st, d + 1) IN
            IF ~ r2.ok THEN r2
            ELSE IF ~ isa(r2.val, "list") THEN Err("TypeError", r2.st)
            ELSE Ok(MkList(<<r1.val>> \o r2.val.v), r2.st)

\* (cond (p1 e1) ... (pn en)): the for loop over the clauses.
RECURSIVE cond_loop(_, _, _, _)
cond_loop(clauses, env, st, d) ==
  IF clauses = <<>> THEN Ok(MkList(<<>>), st)
  ELSE
    LET c == Head(clauses) IN
    IF ~ iterable(c) THEN Err("TypeError", st)
    ELSE IF ~ unpacks(c, 2) THEN Err("ValueError", st)
    ELSE
      LET pe == iter_items(c)
          rp == eval(pe[1], env, st, d + 1)
      IN  IF ~ rp.ok THEN rp
          ELSE IF truthy(rp.val) THEN eval(pe[2], env, rp.st, d + 1)
          ELSE cond_loop(Tail(clauses), env, rp.st, d)

eval_cond(x, env, st, d) == cond_loop(Tail(x.v), env, st, d)

\* (null? exp): eval(exp, env) == []
eval_nullp(x, env, st, d) ==
  IF ~ unpacks(x, 2) THEN Err("ValueError", st)
  ELSE LET r == eval(x.v[2], env, st, d + 1) IN
       IF ~ r.ok THEN r ELSE Ok(MkBool(py_eq(r.val, MkList(<<>>))), r.st)

\* (if test conseq alt)
eval_if(x, env, st, d) ==
  IF ~ unpacks(x, 4) THEN Err("ValueError", st)
  ELSE LET r == eval(x.v[2], env, st, d + 1) IN
       IF ~ r.ok THEN r
       ELSE eval(IF truthy(r.val) THEN x.v[3] ELSE x.v[4], env, r.st, d + 1)

\* Mutant of eval_set: the value is stored in the current Env, as define
\* does, without looking for the Env that binds var.
eval_set_local(x, env, st, d) ==
  IF ~ unpacks(x, 3) THEN Err("ValueError", st)
  ELSE
    LET var == x.v[2]
        r   == eval(x.v[3], env, st, d + 1)
    IN
    IF ~ r.ok THEN r
    ELSE IF ~ hashable(var) THEN Err("TypeError", r.st)
    ELSE
      LET es == [r.st.envs EXCEPT ![env].b = dict_set(@, var, r.val)] IN
      Ok(None, Logged([r.st EXCEPT !.envs = es],
                      Ev("set!", env, var, r.val, env, 0, r.st.envs, es)))

\* Mutant of eval_set: the frame is found and cleared before the value
\* expression is evaluated, so a failing expression leaves var set to None.
eval_set_eager(x, env, st, d) ==
  IF ~ unpacks(x, 3) THEN Err("ValueError", st)
  ELSE
    LET var == x.v[2]
        f   == IF hashable(var) THEN find(st.envs, env, var) ELSE 0
        st0 == IF f = 0 THEN st
               ELSE [st EXCEPT !.envs[f].b = dict_set(@, var, None)]
        r   == eval(x.v[3], env, st0, d + 1)
    IN
    IF ~ r.ok THEN r
    ELSE IF ~ hashable(var) THEN Err("TypeError", r.st)
    ELSE
      LET g == find(r.st.envs, env, var) IN
      IF g = 0
      THEN Err("AttributeError",
               Logged(r.st, Ev("set!", env, var, r.val, 0, 0,
                               r.st.envs, r.st.envs)))
      ELSE
        LET es == [r.st.envs EXCEPT ![g].b = dict_set(@, var, r.val)] IN
        Ok(None, Logged([r.st EXCEPT !.envs = es],
                        Ev("set!", env, var, r.val, g, 0, r.st.envs, es)))

\* (set! var exp): env.find(var)[var] = eval(exp, env).  Python evaluates
\* the right-hand side first, then finds the frame, then stores.
eval_set(x, env, st, d) ==
  IF ~ unpacks(x, 3) THEN Err("ValueError", st)
  ELSE
    LET var == x.v[2]
        r   == eval(x.v[3], env, st, d + 1)
    IN
    IF ~ r.ok THEN r
    ELSE IF ~ hashable(var) THEN Err("TypeError", r.st)
    ELSE
      LET f == find(r.st.envs, env, var) IN
      IF f = 0
      THEN Err("AttributeError",
               Logged(r.st, Ev("set!", env, var, r.val, 0, 0,
                               r.st.envs, r.st.envs)))
      ELSE
        LET es == [r.st.envs EXCEPT ![f].b = dict_set(@, var, r.val)] IN
        Ok(None, Logged([r.st EXCEPT !.envs = es],
                        Ev("set!", env, var, r.val, f, 0, r.st.envs, es)))

\* Mutant of eval_define: an Env further out that already binds var is
\* overwritten instead of the current Env.
eval_define_outward(x, env, st, d) ==
  IF ~ unpacks(x, 3) THEN Err("ValueError", st)
  ELSE
    LET var == x.v[2]
        r   == eval(x.v[3], env, st, d + 1)
    IN
    IF ~ r.ok THEN r
    ELSE IF ~ hashable(var) THEN Err("TypeError", r.st)
    ELSE
      LET f  == find(r.st.envs, env, var)
          g  == IF f = 0 THEN env ELSE f
          es == [r.st.envs EXCEPT ![g].b = dict_set(@, var, r.val)]
      IN  Ok(None, Logged([r.st EXCEPT !.envs = es],
                          Ev("define", env, var, r.val, g, 0, r.st.envs, es)))

\* (define var exp): env[var] = eval(exp, env)
eval_define(x, env, st, d) ==
  IF ~ unpacks(x, 3) THEN Err("ValueError", st)
  ELSE
    LET var == x.v[2]
        r   == eval(x.v[3], env, st, d + 1)
    IN
    IF ~ r.ok THEN r
    ELSE IF ~ hashable(var) THEN Err("TypeError", r.st)
    ELSE
      LET es == [r.st.envs EXCEPT ![env].b = dict_set(@, var, r.val)] IN
      Ok(None, Logged([r.st EXCEPT !.envs = es],
                      Ev("define", env, var, r.val, env, 0, r.st.envs, es)))

\* (lambda (var*) exp): a new function object that remembers vars, exp and
\* the Env in which the lambda expression was evaluated.
eval_lambda(x, env, st, d) ==
  IF ~ unpacks(x, 3) THEN Err("ValueError", st)
  ELSE
    LET id == st.nlambda + 1 IN
    Ok(MkLambda(id, x.v[2], x.v[3], env),
       [st EXCEPT !.nlambda = id, !.made = Append(@, env)])

\* (begin exp*): the for loop; val stays unbound when there is no exp.
RECURSIVE begin_loop(_, _, _, _, _)
begin_loop(exps, val, env, st, d) ==
  IF exps = <<>> THEN Ok(val, st)
  ELSE LET r == eval(Head(exps), env, st, d + 1) IN
       IF ~ r.ok THEN r ELSE begin_loop(Tail(exps), r.val, env, r.st, d)

eval_begin(x, env, st, d) ==
  IF Len(x.v) = 1 THEN Err("UnboundLocalError", st)
  ELSE begin_loop(Tail(x.v), None, env, st, d)

\* Mutant of call_lambda: the new Env's outer is the caller's Env (dynamic
\* scope) instead of the Env the lambda remembers.
call_lambda_dynamic(proc, args, app, caller, st, d) ==
  LET vs == proc.v.vars IN
  IF ~ iterable(vs) THEN Err("TypeError", st)
  ELSE IF \E i \in 1..Min2(Len(vs.v), Len(args)) : ~ hashable(iter_items(vs)[i])
       THEN Err("TypeError", st)
  ELSE
    LET new == Len(st.envs) + 1
        es  == Append(st.envs, EnvInit(vs, args, caller))
        st1 == Logged([st EXCEPT !.envs = es],
                      Ev("call", caller, proc, MkList(args), new, app, st.envs, es))
    IN  eval(proc.v.exp, new, st1, d + 1)

\* The function object lambda *args: eval(exp, Env(vars, args, env)) called
\* with args: one new Env, outer the Env the lambda remembers.
call_lambda(proc, args, app, caller, st, d) ==
  LET vs == proc.v.vars IN
  IF ~ iterable(vs) THEN Err("TypeError", st)
  ELSE IF \E i \in 1..Min2(Len(vs.v), Len(args)) : ~ hashable(iter_items(vs)[i])
       THEN Err("TypeError", st)
  ELSE
    LET new == Len(st.envs) + 1
        es  == Append(st.envs, EnvInit(vs, args, proc.v.env))
        st1 == Logged([st EXCEPT !.envs = es],
                      Ev("call", caller, proc, MkList(args), new, app, st.envs, es))
    IN  eval(proc.v.exp, new, st1, d + 1)

\* proc(*args)
call(proc, args, app, caller, st, d) ==
  IF isa(proc, "builtin") THEN
    IF Len(args) # 2 THEN Err("TypeError", st)
    ELSE LET b == binop(proc.v, args[1], args[2]) IN
         IF b.ok THEN Ok(b.val, st) ELSE Err(b.err, st)
  ELSE IF isa(proc, "lambda") THEN call_lambda(proc, args, app, caller, st, d)
  ELSE Err("TypeError", st)

\* Mutant of fold_call: more than two operands are folded from the right,
\* proc(exps[0], proc(exps[1], ...)).
RECURSIVE fold_call_right(_, _, _, _, _, _)
fold_call_right(proc, exps, app, caller, st, d) ==
  IF Len(exps) > 2 THEN
    LET r == fold_call_right(proc, Tail(exps), app, caller, st, d) IN
    IF ~ r.ok THEN r
    ELSE call(proc, <<exps[1], r.val>>, app, caller, r.st, d)
  ELSE call(proc, exps, app, caller, st, d)

\* while len(exps) > 2: exps = [proc(exps[0], exps[1])] + exps[2:]
\* return proc(*exps)
RECURSIVE fold_call(_, _, _, _, _, _)
fold_call(proc, exps, app, caller, st, d) ==
  IF Len(exps) > 2 THEN
    LET r == call(proc, <<exps[1], exps[2]>>, app, caller, st, d) IN
    IF ~ r.ok THEN r
    ELSE fold_call(proc, <<r.val>> \o SubSeq(exps, 3, Len(exps)),
                   app, caller, r.st, d)
  ELSE call(proc, exps, app, caller, st, d)

\* if (len(exps) == 1) and (proc == operator.add or proc == operator.sub):
\*   exps = [0] + exps
unary_sign(proc, exps) ==
  IF Len(exps) = 1 /\ isa(proc, "builtin") /\ proc.v \in {"add", "sub"}
  THEN <<MkInt(0)>> \o exps
  ELSE exps

\* The procedure and its evaluated operands, applied.
apply_proc(proc, exps, caller, st, d) ==
  LET app == Len(st.log) + 1
      st1 == Logged(st, Ev("app", caller, proc, MkList(exps), 0, 0, <<>>, <<>>))
  IN  fold_call(proc, unary_sign(proc, exps), app, caller, st1, d)

\* [eval(exp, env) for exp in x]
RECURSIVE eval_each(_, _, _, _)
eval_each(xs, env, st, d) ==
  IF xs = <<>> THEN [ok |-> TRUE, vals |-> <<>>, err |-> "", st |-> st]
  ELSE
    LET r == eval(Head(xs), env, st, d + 1) IN
    IF ~ r.ok THEN [ok |-> FALSE, vals |-> <<>>, err |-> r.err, st |-> r.st]
    ELSE LET rs == eval_each(Tail(xs), env, r.st, d) IN
         [rs EXCEPT !.vals = <<r.val>> \o @]

\* (proc exp*)
eval_application(x, env, st, d) ==
  LET r == eval_each(x.v, env, st, d) IN
  IF ~ r.ok THEN Err(r.err, r.st)
  ELSE apply_proc(Head(r.vals), Tail(r.vals), env, r.st, d)

\* Evaluate an expression in an environment.  An evaluation nested deeper
\* than MaxDepth exhausts the interpreter's stack (RuntimeError).
eval(x, env, st, d) ==
  IF d > MaxDepth THEN Err("RuntimeError", st)
  ELSE IF isa(x, "str") THEN eval_symbol(x, env, st, d)
  ELSE IF ~ isa(x, "list") THEN Ok(x, st)
  ELSE IF x.v = <<>> THEN Err("IndexError", st)
  ELSE
    LET h == x.v[1] IN
    CASE is_kw(h, Kw_quote) \/ is_kw(h, Kw_q) -> eval_quote(x, env, st, d)
      [] is_kw(h, Kw_atomp)  -> eval_atomp(x, env, st, d)
      [] is_kw(h, Kw_eqp)    -> eval_eqp(x, env, st, d)
      [] is_kw(h, Kw_car)    -> eval_car(x, env, st, d)
      [] is_kw(h, Kw_cdr)    -> eval_cdr(x, env, st, d)
      [] is_kw(h, Kw_cons)   -> eval_cons(x, env, st, d)
      [] is_kw(h, Kw_cond)   -> eval_cond(x, env, st, d)
      [] is_kw(h, Kw_nullp)  -> eval_nullp(x, env, st, d)
      [] is_kw(h, Kw_if)     -> eval_if(x, env, st, d)
      [] is_kw(h, Kw_set)    -> eval_set(x, env, st, d)
      [] is_kw(h, Kw_define) -> eval_define(x, env, st, d)
      [] is_kw(h, Kw_lambda) -> eval_lambda(x, env, st, d)
      [] is_kw(h, Kw_begin)  -> eval_begin(x, env, st, d)
      [] OTHER               -> eval_application(x, env, st, d)

---------------------------------------------------------------------------
(* The lines typed at the prompt.                                          *)

\* (define a 1)
In_def_a ==
  <<"(", "d", "e", "f", "i", "n", "e", " ", "a", " ", "1", ")">>

\* (set! a 2)
In_set_a ==
  <<"(", "s", "e", "t", "!", " ", "a", " ", "2", ")">>

\* (define mk (lambda (a) (lambda (b) (+ a b))))
In_def_mk ==
  <<"(", "d", "e", "f", "i", "n", "e", " ", "m", "k", " ", "(", "l", "a",
    "m", "b", "d", "a", " ", "(", "a", ")", " ", "(", "l", "a", "m", "b",
    "d", "a", " ", "(", "b", ")", " ", "(", "+", " ", "a", " ", "b", ")",
    ")", ")", ")">>

\* (define f (mk 5))
In_def_f ==
  <<"(", "d", "e", "f", "i", "n", "e", " ", "f", " ", "(", "m", "k", " ",
    "5", ")", ")">>

\* (f 2)
In_call_f ==
  <<"(", "f", " ", "2", ")">>

\* (define g (lambda () a))
In_def_g ==
  <<"(", "d", "e", "f", "i", "n", "e", " ", "g", " ", "(", "l", "a", "m",
    "b", "d", "a", " ", "(", ")", " ", "a", ")", ")">>

\* (g)
In_call_g ==
  <<"(", "g", ")">>

\* ((lambda (x y) (+ x y)) 3 4)
In_add2 ==
  <<"(", "(", "l", "a", "m", "b", "d", "a", " ", "(", "x", " ", "y", ")",
    " ", "(", "+", " ", "x", " ", "y", ")", ")", " ", "3", " ", "4", ")">>

\* ((lambda (x y z) (+ x y)) 1 2 3)
In_add3 ==
  <<"(", "(", "l", "a", "m", "b", "d", "a", " ", "(", "x", " ", "y", " ",
    "z", ")", " ", "(", "+", " ", "x", " ", "y", ")", ")", " ", "1", " ",
    "2", " ", "3", ")">>

\* (define x 10)
In_def_x ==
  <<"(", "d", "e", "f", "i", "n", "e", " ", "x", " ", "1", "0", ")">>

\* (set! x (+ x 1))
In_inc_x ==
  <<"(", "s", "e", "t", "!", " ", "x", " ", "(", "+", " ", "x", " ", "1",
    ")", ")">>

\* x
In_x ==
  <<"x">>

\* (set! y 1)
In_set_y ==
  <<"(", "s", "e", "t", "!", " ", "y", " ", "1", ")">>

\* ((lambda (x) (begin (set! x 5) x)) 1)
In_set_local ==
  <<"(", "(", "l", "a", "m", "b", "d", "a", " ", "(", "x", ")", " ", "(",
    "b", "e", "g", "i", "n", " ", "(", "s", "e", "t", "!", " ", "x", " ",
    "5", ")", " ", "x", ")", ")", " ", "1", ")">>

\* ((lambda () (define x 7)))
In_def_local ==
  <<"(", "(", "l", "a", "m", "b", "d", "a", " ", "(", ")", " ", "(", "d",
    "e", "f", "i", "n", "e", " ", "x", " ", "7", ")", ")", ")">>

\* ((lambda (y) (set! x (+ x y))) 5)
In_set_outer ==
  <<"(", "(", "l", "a", "m", "b", "d", "a", " ", "(", "y", ")", " ", "(",
    "s", "e", "t", "!", " ", "x", " ", "(", "+", " ", "x", " ", "y", ")",
    ")", ")", " ", "5", ")">>

\* (define x (car (q ())))
In_def_fail ==
  <<"(", "d", "e", "f", "i", "n", "e", " ", "x", " ", "(", "c", "a", "r",
    " ", "(", "q", " ", "(", ")", ")", ")", ")">>

\* (begin (set! x 3) (set! x (car (q ()))))
In_set_fail ==
  <<"(", "b", "e", "g", "i", "n", " ", "(", "s", "e", "t", "!", " ", "x",
    " ", "3", ")", " ", "(", "s", "e", "t", "!", " ", "x", " ", "(", "c",
    "a", "r", " ", "(", "q", " ", "(", ")", ")", ")", ")", ")">>

\* (define r (lambda (n) (begin (set! x n) (r (+ n 1)))))
In_def_r ==
  <<"(", "d", "e", "f", "i", "n", "e", " ", "r", " ", "(", "l", "a", "m",
    "b", "d", "a", " ", "(", "n", ")", " ", "(", "b", "e", "g", "i", "n",
    " ", "(", "s", "e", "t", "!", " ", "x", " ", "n", ")", " ", "(", "r",
    " ", "(", "+", " ", "n", " ", "1", ")", ")", ")", ")", ")">>

\* (r 0)
In_call_r ==
  <<"(", "r", " ", "0", ")">>

\* (define x
In_open ==
  <<"(", "d", "e", "f", "i", "n", "e", " ", "x">>

ScopeInputs ==
  <<In_def_a, In_set_a, In_def_mk, In_def_f, In_call_f, In_def_g, In_call_g, In_add2, In_add3>>

AssignInputs ==
  <<In_def_x, In_inc_x, In_x, In_set_y,
    In_set_local, In_def_local, In_set_outer>>

FailureInputs ==
  <<In_def_x, In_x, In_def_fail, In_set_fail, In_def_r, In_call_r, In_open>>


Inputs(family) ==
  IF family = "scope" THEN ScopeInputs
  ELSE IF family = "assign" THEN AssignInputs
  ELSE IF family = "failure" THEN FailureInputs
  ELSE <<>>

\* A line applying a builtin arithmetic operator to integers: (op a1 ... an)
ArithOps == {"+", "-", "*", "/"}

ArithLine(op, args) ==
  <<"(", op>>
  \o join_space([i \in 1..(Len(args) + 1) |->
                   IF i = 1 THEN <<>> ELSE IntToText(args[i - 1])])
  \o <<")">>

ArithLines ==
  {ArithLine(op, args) :
     op \in ArithOps,
     args \in UNION {[1..n -> (0 - MaxInt)..MaxInt] : n \in 1..MaxArgs}}

---------------------------------------------------------------------------
(* repl: a prompt-read-eval-print loop.                                    *)

NoLast == [inp |-> <<>>, ok |-> TRUE, val |-> None, err |-> "", out |-> <<>>]

\* One iteration of the while loop on the line src: parse, eval in
\* global_env, print to_string(val) unless val is None; any exception goes
\* to handle_error and the loop goes on.
ReplOn(src) ==
  LET p == parse(src) IN
  IF ~ p.ok
  THEN /\ last' = [inp |-> src, ok |-> FALSE, val |-> None, err |-> p.err,
                   out |-> <<>>]
       /\ log' = <<>>
       /\ pre' = envs
       /\ UNCHANGED <<envs, nlambda, made>>
  ELSE
    LET r == eval(p.exp, 1,
                  [envs |-> envs, nlambda |-> nlambda, made |-> made,
                   log |-> <<>>], 0)
    IN  /\ envs' = r.st.envs
        /\ nlambda' = r.st.nlambda
        /\ made' = r.st.made
        /\ log' = r.st.log
        /\ pre' = envs
        /\ last' = [inp |-> src, ok |-> r.ok, val |-> r.val, err |-> r.err,
                    out |-> IF r.ok /\ r.val # None THEN to_string(r.val)
                            ELSE <<>>]

Running == last.err # "KeyboardInterrupt"

IdleRead ==
  /\ text = <<>>
  /\ tokens = <<>>
  /\ rd = NoRead
  /\ rendered = <<>>
  /\ rd2 = NoRead
  /\ phase = "idle"

FreshInterpreter ==
  /\ envs = <<global_env>>
  /\ nlambda = 0
  /\ made = <<>>
  /\ log = <<>>
  /\ pre = <<global_env>>
  /\ last = NoLast
  /\ steps = 0

Init ==
  /\ FreshInterpreter
  /\ prog \in {"scope", "assign", "failure"}
  /\ IdleRead

\* The user types one of the session's lines.
Repl ==
  /\ Running
  /\ steps < MaxSteps
  /\ \E i \in 1..Len(Inputs(prog)) : ReplOn(Inputs(prog)[i])
  /\ steps' = steps + 1
  /\ UNCHANGED <<prog, readVars>>

\* except KeyboardInterrupt: print the farewell and sys.exit().
ReplInterrupt ==
  /\ Running
  /\ last' = [last EXCEPT !.ok = FALSE, !.err = "KeyboardInterrupt"]
  /\ UNCHANGED <<envs, nlambda, made, log, pre, steps, prog, readVars>>

Next == Repl \/ ReplInterrupt

Spec == Init /\ [][Next]_vars

\* A session of one arithmetic line.
InitArith ==
  /\ FreshInterpreter
  /\ prog = "arith"
  /\ text \in ArithLines
  /\ tokens = <<>>
  /\ rd = NoRead
  /\ rendered = <<>>
  /\ rd2 = NoRead
  /\ phase = "idle"

ReplArith ==
  /\ Running
  /\ steps = 0
  /\ ReplOn(text)
  /\ steps' = 1
  /\ UNCHANGED <<prog, readVars>>

NextArith == ReplArith

SpecArith == InitArith /\ [][NextArith]_vars

\* The reader pipeline on every short text.
InitReader ==
  /\ FreshInterpreter
  /\ prog = "reader"
  /\ InitRead

NextRead == Parse \/ Render \/ Reparse

SpecRead == InitReader /\ [][NextRead]_vars

---------------------------------------------------------------------------
(* Reading the record of an evaluation.                                    *)

Events(k) == {i \in 1..Len(log) : log[i].k = k}

Writes == {i \in 1..Len(log) : log[i].k \in {"define", "set!"} /\ log[i].tgt # 0}

\* The Env objects from env outwards, nearest first; at most n of them.
RECURSIVE ChainSeq(_, _, _)
ChainSeq(es, env, n) ==
  IF env = 0 \/ n = 0 THEN <<>>
  ELSE <<env>> \o ChainSeq(es, es[env].outer, n - 1)

SetMin(S) == CHOOSE m \in S : \A n \in S : m <= n

\* The store each logged step started from is the store the step before it
\* left, the first started from pre and the last left envs.
StoreTrace ==
  LET steps3 == {i \in 1..Len(log) : log[i].k \in {"define", "set!", "call"}}
      Before(i) == LET earlier == {j \in steps3 : j < i} IN
                   IF earlier = {} THEN pre
                   ELSE log[CHOOSE j \in earlier : \A m \in earlier : m <= j].aft
  IN  /\ \A i \in steps3 : log[i].b4 = Before(i)
      /\ envs = Before(Len(log) + 1)

\* Between b4 and aft exactly the binding of key in frame f was written.
OnlyWrote(ev, f) ==
  /\ Len(ev.aft) = Len(ev.b4)
  /\ \A g \in 1..Len(ev.b4) :
       IF g # f THEN ev.aft[g] = ev.b4[g]
       ELSE
         LET old == ev.b4[g].b
             new == ev.aft[g].b
         IN  /\ ev.aft[g].outer = ev.b4[g].outer
             /\ dict_has(new, ev.key)
             /\ dict_get(new, ev.key) = ev.val
             /\ \A j \in 1..Len(old) :
                  py_eq(old[j].k, ev.key) \/
                    (dict_has(new, old[j].k) /\ dict_get(new, old[j].k) = old[j].v)
             /\ \A j \in 1..Len(new) :
                  py_eq(new[j].k, ev.key) \/ dict_has(old, new[j].k)

Var(name) == MkSym(<<name>>)

GlobalHas(es, name) == dict_has(es[1].b, Var(name))
GlobalVal(es, name) == dict_get(es[1].b, Var(name))

---------------------------------------------------------------------------
(* Claims about the evaluator, checked under Spec.                         *)

\* C1: every call of a lambda object evaluates its body in a new Env whose
\* outer is the Env in which the lambda expression was evaluated, not the
\* caller's.  So (f 2), with f made by (mk 5), adds the 5 of mk's frame
\* whatever the global a is, and (g) returns the global a as it is bound
\* when g is called, also when a was bound or changed after g was made.
C1_LexicalScope ==
  /\ \A i \in Events("call") :
       LET ev == log[i] IN
       /\ ev.tgt = Len(ev.b4) + 1
       /\ ev.aft[ev.tgt].outer = made[ev.key.v.id]
       /\ envs[ev.tgt].outer = made[ev.key.v.id]
  /\ (steps > 0 /\ Running /\ last.inp = In_call_f /\ GlobalHas(pre, "f"))
       => (last.ok /\ last.val = MkInt(7))
  /\ (steps > 0 /\ Running /\ last.inp = In_call_g /\ GlobalHas(pre, "g"))
       => IF GlobalHas(envs, "a")
          THEN last.ok /\ last.val = GlobalVal(envs, "a")
          ELSE ~ last.ok /\ last.err = "AttributeError"

\* A lambda made inside another lambda's call is called from the top level,
\* with the global a bound to something else than mk's argument.
C1_Witness ==
  /\ last.inp = In_call_f
  /\ last.ok
  /\ GlobalHas(envs, "a")
  /\ \E i \in Events("call") :
       log[i].env = 1 /\ made[log[i].key.v.id] # 1

\* C2: (set! s e) in Env E evaluates e and writes the value into the
\* nearest Env on E's outer chain that binds s, leaving every other frame
\* and binding as it was; when no Env on the chain binds s the evaluation
\* fails (AttributeError) and nothing is written.  (set! x (+ x 1)) at the
\* top level makes the global x one larger: 11 after (define x 10).
C2_SetNearest ==
  /\ StoreTrace
  /\ \A i \in Events("set!") :
       LET ev      == log[i]
           chain   == ChainSeq(ev.b4, ev.env, Len(ev.b4))
           binders == {j \in 1..Len(chain) :
                         dict_has(ev.b4[chain[j]].b, ev.key)}
       IN  IF binders = {}
           THEN /\ ev.tgt = 0
                /\ ev.aft = ev.b4
                /\ i = Len(log)
                /\ Running => (~ last.ok /\ last.err = "AttributeError")
           ELSE /\ ev.tgt = chain[SetMin(binders)]
                /\ OnlyWrote(ev, ev.tgt)
  /\ (steps > 0 /\ Running /\ last.inp = In_inc_x /\ GlobalHas(pre, "x"))
       => /\ last.ok
          /\ GlobalVal(envs, "x") = MkInt(GlobalVal(pre, "x").v + 1)
          /\ GlobalVal(pre, "x") = MkInt(10) => GlobalVal(envs, "x") = MkInt(11)

\* A set! inside a lambda's body wrote the global frame, past the call's
\* own frame, and x went from 10 to 15.
C2_Witness ==
  /\ last.inp = In_set_outer
  /\ last.ok
  /\ GlobalHas(pre, "x")
  /\ GlobalVal(pre, "x") = MkInt(10)
  /\ GlobalVal(envs, "x") = MkInt(15)
  /\ \E i \in Events("set!") : log[i].env # 1 /\ log[i].tgt = 1

\* C3: (define s e) in Env E binds s in E and nowhere else: no other frame
\* changes, also when an ancestor of E binds s, so a define in a lambda's
\* body leaves the global binding of the same symbol as it was.
C3_DefineLocal ==
  /\ StoreTrace
  /\ \A i \in Events("define") :
       /\ log[i].tgt = log[i].env
       /\ OnlyWrote(log[i], log[i].env)
  /\ (steps > 0 /\ Running /\ last.inp = In_def_local)
       => (last.ok /\ envs[1] = pre[1])

\* A define of x in a lambda's body while the global frame binds x.
C3_Witness ==
  /\ last.inp = In_def_local
  /\ GlobalHas(envs, "x")
  /\ \E i \in Events("define") :
       /\ log[i].env # 1
       /\ dict_get(envs[log[i].env].b, Var("x")) = MkInt(7)
       /\ GlobalVal(envs, "x") # MkInt(7)

\* C4: applying a lambda object of n parameters to n values calls it once,
\* with those n values, in a new Env binding the i-th parameter to the i-th
\* value, for every n.
C4_CalledOncePositionally ==
  \A i \in Events("app") :
    LET ev == log[i]
        p  == ev.key
    IN  (p.t = "lambda" /\ p.v.vars.t = "list"
           /\ Len(p.v.vars.v) = Len(ev.val.v))
        => LET calls == {j \in Events("call") : log[j].ref = i} IN
           /\ Cardinality(calls) = 1
           /\ \A j \in calls :
                /\ log[j].val = ev.val
                /\ \A n \in 1..Len(p.v.vars.v) :
                     /\ dict_has(log[j].aft[log[j].tgt].b, p.v.vars.v[n])
                     /\ dict_get(log[j].aft[log[j].tgt].b, p.v.vars.v[n])
                          = ev.val.v[n]

\* The store after replaying, on pre, the frames created and the define and
\* set! writes that the record of the evaluation holds.
RECURSIVE Replay(_, _)
Replay(es, evs) ==
  IF evs = <<>> THEN es
  ELSE
    LET ev == Head(evs) IN
    IF ev.k = "call" THEN Replay(Append(es, ev.aft[ev.tgt]), Tail(evs))
    ELSE IF ev.k \in {"define", "set!"} /\ ev.tgt # 0
      THEN Replay([es EXCEPT ![ev.tgt].b = dict_set(@, ev.key, ev.val)],
                  Tail(evs))
    ELSE Replay(es, Tail(evs))

\* C7: when a top-level form fails, the store differs from the store before
\* the form only by the define and set! sub-evaluations that completed
\* before the failure: every earlier binding is still there, with its value
\* unless such a write replaced it, and a define or set! whose value
\* expression fails binds nothing.
C7_FailureKeepsBindings ==
  (steps > 0 /\ Running /\ ~ last.ok) =>
    /\ envs = Replay(pre, log)
    /\ \A f \in 1..Len(pre) : \A j \in 1..Len(pre[f].b) :
         LET k == pre[f].b[j].k IN
         /\ dict_has(envs[f].b, k)
         /\ \/ dict_get(envs[f].b, k) = pre[f].b[j].v
            \/ \E w \in Writes : log[w].tgt = f /\ py_eq(log[w].key, k)
    /\ last.inp = In_def_fail => (envs = pre /\ Writes = {})
    /\ (last.inp = In_set_fail /\ GlobalHas(pre, "x"))
         => (Cardinality(Writes) = 1 /\ GlobalVal(envs, "x") = MkInt(3))

\* The failed form's first set! had completed: x is 3, no longer 10.
C7_Witness ==
  /\ steps > 0 /\ Running /\ ~ last.ok
  /\ last.inp = In_set_fail
  /\ GlobalHas(pre, "x")
  /\ GlobalVal(pre, "x") = MkInt(10)
  /\ GlobalVal(envs, "x") = MkInt(3)

\* C10: every Env has a finite outer chain without a cycle that ends at
\* global_env, the only Env whose outer is None.
C10_ChainsEndAtGlobal ==
  /\ envs[1].outer = 0
  /\ \A i \in 1..Len(envs) :
       LET chain == ChainSeq(envs, i, Len(envs) + 1) IN
       /\ Len(chain) <= Len(envs)
       /\ chain[Len(chain)] = 1
       /\ \A m, n \in 1..Len(chain) : m # n => chain[m] # chain[n]
       /\ i # 1 => envs[i].outer # 0

\* An Env whose outer is another call's Env: a chain of three.
C10_Witness ==
  \E i \in 1..Len(envs) : envs[i].outer \notin {0, 1}

---------------------------------------------------------------------------
(* Claims about builtin arithmetic, checked under SpecArith.               *)

\* Floor of a / b, from its defining property.
FloorDiv(a, b) ==
  LET m == IF a < 0 THEN 1 - a ELSE a + 1 IN
  CHOOSE q \in (0 - m)..m :
    LET r == a - q * b IN
    IF b > 0 THEN r >= 0 /\ r < b ELSE r <= 0 /\ r > b

RefOk(n) == [ok |-> TRUE,  n |-> n]
RefFail  == [ok |-> FALSE, n |-> 0]

RefOp(op, a, b) ==
  CASE op = "+" -> RefOk(a + b)
    [] op = "-" -> RefOk(a - b)
    [] op = "*" -> RefOk(a * b)
    [] op = "/" -> IF b = 0 THEN RefFail ELSE RefOk(FloorDiv(a, b))

\* op(0, a1) for one operand, op(a1, a2) for two, and for more the left
\* fold op(Reference(a1..a(n-1)), an).
RECURSIVE Reference(_, _)
Reference(op, args) ==
  IF Len(args) = 1 THEN RefOp(op, 0, args[1])
  ELSE IF Len(args) = 2 THEN RefOp(op, args[1], args[2])
  ELSE LET front == Reference(op, SubSeq(args, 1, Len(args) - 1)) IN
       IF front.ok THEN RefOp(op, front.n, args[Len(args)]) ELSE RefFail

\* C5: the line (op a1 ... an) with integers a1..an evaluates to the
\* reference result: op(0, a1) for one operand of + or -, op(a1, a2) for
\* two, the left fold for more; the operands reach the operator in the
\* order written, and a division by zero anywhere in the fold is the error
\* of the whole line.
C5_ArithFold ==
  (prog = "arith" /\ steps = 1) =>
    LET op   == text[2]
        args == [i \in 1..Len(log[1].val.v) |-> log[1].val.v[i].v]
        ref  == Reference(op, args)
    IN  /\ log[1].k = "app"
        /\ text = ArithLine(op, args)
        /\ (Len(args) >= 2 \/ op \in {"+", "-"}) =>
             IF ref.ok
             THEN /\ last.ok
                  /\ last.val = MkInt(ref.n)
                  /\ last.out = IntToText(ref.n)
             ELSE ~ last.ok /\ last.err = "ZeroDivisionError"

\* (- 2 -1 2) is (2 - -1) - 2 = 1; folded from the right it would be 5.
C5_Witness ==
  /\ prog = "arith"
  /\ steps = 1
  /\ text = ArithLine("-", <<2, 0 - 1, 2>>)
  /\ last.ok
  /\ last.val = MkInt(1)

---------------------------------------------------------------------------
(* Claims about the reader, checked under SpecRead.                        *)

ParenDepth(toks, k) ==
  Cardinality({i \in 1..k : toks[i] = <<"(">>})
    - Cardinality({i \in 1..k : toks[i] = <<")">>})

\* Every close paren has an open paren before it and every open paren is
\* closed.
Balanced(toks) ==
  /\ \A k \in 1..Len(toks) : ParenDepth(toks, k) >= 0
  /\ ParenDepth(toks, Len(toks)) = 0

\* C6: reading a token sequence with unbalanced parentheses ends in an
\* error and never returns an expression.  (Any exception counts as the
\* error here: an open paren that is never closed raises IndexError from
\* tokens[0], not SyntaxError.)
C6_UnbalancedIsError ==
  (phase # "start" /\ ~ Balanced(tokens)) => ~ rd.ok

RECURSIVE IntSymExpr(_)
IntSymExpr(e) ==
  \/ e.t \in {"int", "str"}
  \/ e.t = "list" /\ \A i \in 1..Len(e.v) : IntSymExpr(e.v[i])

\* C8: an expression of integers, symbols and lists of them, rendered and
\* parsed again, is the same expression.
C8_RoundTrip ==
  (phase = "reparsed" /\ IntSymExpr(rd.exp)) => (rd2.ok /\ rd2.exp = rd.exp)

\* (a()) reads as the list of a and the empty list and renders as (a ()).
C8_Witness ==
  /\ phase = "reparsed"
  /\ rd.exp = MkList(<<MkSym(<<"a">>), MkList(<<>>)>>)
  /\ rendered # text
  /\ rd2.exp = rd.exp

RECURSIVE WordsOf(_)
WordsOf(toks) ==
  IF toks = <<>> THEN <<>> ELSE split(Head(toks)) \o WordsOf(Tail(toks))

\* C9: tokenize loses no word: the words of its tokens, in order, are the
\* words of the padded text, an unterminated string included.
C9_NoWordLost ==
  phase # "start" => WordsOf(tokens) = split(pad_parens(text))

====
